---- MODULE Spec2Model ----
(***************************************************************************)
(* UNI burn monitor: the checkpointed scanner (processNewBurns and the    *)
(* polling timer), the chunked log fetcher and the reconciler             *)
(* (fetchLogsInChunks, fetchBurnsSinceBlock) and the store (saveBurn,     *)
(* isBurnNotified, get/setLastProcessedBlock).                            *)
(***************************************************************************)
EXTENDS Integers, Sequences, FiniteSets

\* ---------------------------------------------------------------- constants

\* ethereumMonitor.ts: const MAX_BLOCKS_PER_QUERY = 10n
MAX_BLOCKS_PER_QUERY == 10

\* backfill.ts: const MAX_BLOCKS_PER_QUERY = 10n
BACKFILL_MAX_BLOCKS_PER_QUERY == 10

\* bot loop: const INITIAL_LOOKBACK_BLOCKS = 300n
INITIAL_LOOKBACK_BLOCKS == 300

\* ------------------------------------------------------------------- bounds

\* chain head when the process first starts
InitHead == 1000

\* how many blocks the head may grow beyond InitHead
MaxAdvance == 2

\* highest block number of the ranges handed to fetchLogsInChunks on its own
MaxRangeBlock == 23

\* number of saveBurn calls made on the store on its own
MaxInserts == 3

\* number of logs handed to the reconciler on its own, both lists together
MaxLogs == 3

MaxHead == InitHead + MaxAdvance

\* concurrent executions of the timer callback that are tracked
Slots == {1, 2}

\* ------------------------------------------------------------------ values

\* a log field the provider did not decode (args.value / args.from undefined)
Undefined == 0 - 1
NoAddress == "none"

Destinations == {"firepit", "dead"}

Log(tx, block, dest, src, val) ==
  [transactionHash |-> tx, blockNumber |-> block, to |-> dest, from |-> src,
   value |-> val]

\* the backfill script when it does not run
IdleBackfill ==
  [pc |-> "idle", run |-> 0, fromBlock |-> 0, toBlock |-> 0, currentBlock |-> 0,
   firepitLogs |-> <<>>, deadLogs |-> <<>>, idx |-> 1,
   totalFirepitBurns |-> 0, totalDeadBurns |-> 0, totalSaved |-> 0,
   totalSkipped |-> 0, attempts |-> 0, errors |-> <<>>, failures |-> 0,
   firstTable |-> <<>>, chunks |-> <<>>, failed |-> <<>>]

VARIABLES
  chain,        \* the token's Transfer logs, in block / log-index order
  head,         \* block number the provider reports
  burnsTable,   \* rows of table burns
  stateTable,   \* rows of table state
  cycle,        \* per execution of processNewBurns: its position and locals
  phase,        \* "starting", "first" (startPolling awaits the first cycle), "interval"
  range,        \* fetchLogsInChunks on its own: the arguments
  start,        \* ... the loop variable (a sequence: empty once the loop ended)
  requests,     \* ... the getLogs requests issued so far
  logs,         \* ... the accumulated result
  lists,        \* the reconciler on its own: firepitLogs and deadLogs
  reconciled,   \* ... the BurnEvents returned (a sequence holding the list)
  inserted,     \* store on its own: the rows passed to saveBurn so far
  raised,       \* store on its own: the last saveBurn raised an error
  channel,      \* txHashes of the burns whose alert reached the Telegram channel
  backfill,     \* the backfill script: its position, locals and counters
  db,           \* the bot's connection to the store: "open" or "closed"
  env           \* what main meets at startup: settings present, sink and source reachable

vars == <<chain, head, burnsTable, stateTable, cycle, phase, range, start,
          requests, logs, lists, reconciled, inserted, raised, channel, backfill,
          db, env>>

scannerVars == <<chain, head, burnsTable, stateTable, cycle, phase>>
fetchVars == <<range, start, requests, logs>>
reconcileVars == <<lists, reconciled>>
storeVars == <<inserted, raised>>
backfillVars == <<backfill>>

\* ------------------------------------------------------- the store (pg)

CheckpointKey == "lastProcessedBlock"

DigitChars == <<"0", "1", "2", "3", "4", "5", "6", "7", "8", "9">>

RECURSIVE Digits(_)
Digits(n) ==
  IF n < 10 THEN <<DigitChars[n + 1]>>
  ELSE Append(Digits(n \div 10), DigitChars[(n % 10) + 1])

\* bigint.toString(): the decimal digits, after a sign for a negative number
ToString(n) == IF n < 0 THEN <<"-">> \o Digits(0 - n) ELSE Digits(n)

DigitValue(c) == CHOOSE d \in 0..9 : DigitChars[d + 1] = c

RECURSIVE DigitsValue(_)
DigitsValue(t) ==
  IF t = <<>> THEN 0
  ELSE 10 * DigitsValue(SubSeq(t, 1, Len(t) - 1)) + DigitValue(t[Len(t)])

\* BigInt(text) of a stored decimal string
ParseBigInt(t) == IF Head(t) = "-" THEN 0 - DigitsValue(Tail(t)) ELSE DigitsValue(t)

\* SELECT 1 FROM burns WHERE tx_hash = $1
IsBurnNotified(table, txHash) == \E i \in DOMAIN table : table[i].txHash = txHash

StoredBurn(burn) ==
  [txHash |-> burn.txHash, blockNumber |-> burn.blockNumber,
   uniAmountRaw |-> burn.uniAmountRaw, burner |-> burn.burner,
   destination |-> burn.destination]

\* a buggy insert: ON CONFLICT (tx_hash) DO UPDATE
SaveBurnUpsert(table, row) ==
  [table |-> IF IsBurnNotified(table, row.txHash)
             THEN [i \in DOMAIN table |->
                     IF table[i].txHash = row.txHash THEN row ELSE table[i]]
             ELSE Append(table, row),
   error |-> FALSE]

\* INSERT INTO burns ... ON CONFLICT (tx_hash) DO NOTHING
SaveBurn(table, row) ==
  [table |-> IF IsBurnNotified(table, row.txHash) THEN table ELSE Append(table, row),
   error |-> FALSE]

\* SELECT value FROM state WHERE key = 'lastProcessedBlock': <<>> is null
GetLastProcessedBlock(st) ==
  LET rows == {r \in st : r.key = CheckpointKey}
  IN  IF rows = {} THEN <<>> ELSE <<ParseBigInt((CHOOSE r \in rows : TRUE).value)>>

\* a buggy write: a plain INSERT into a table without the primary key
SetLastProcessedBlockInsert(st, blockNumber) ==
  st \cup {[key |-> CheckpointKey, value |-> ToString(blockNumber)]}

\* INSERT INTO state ... ON CONFLICT (key) DO UPDATE SET value = EXCLUDED.value
SetLastProcessedBlock(st, blockNumber) ==
  {r \in st : r.key # CheckpointKey}
    \cup {[key |-> CheckpointKey, value |-> ToString(blockNumber)]}

\* ------------------------------------------------- the log source (viem)

\* client.getLogs({address, event, args: {to}, fromBlock, toBlock}) of a
\* provider that answers every request: the matching logs in chain order
GetLogs(ch, dest, fromBlock, toBlock) ==
  SelectSeq(ch, LAMBDA l : l.to = dest /\ l.blockNumber >= fromBlock
                              /\ l.blockNumber <= toBlock)

\* --------------------------------------------------- fetchLogsInChunks

\* a buggy loop step: start += MAX_BLOCKS_PER_QUERY
NextStartOverlapping(from) == from + MAX_BLOCKS_PER_QUERY

\* the loop step: start += MAX_BLOCKS_PER_QUERY + 1n
NextStart(from) == from + MAX_BLOCKS_PER_QUERY + 1

\* const end = start + MAX > toBlock ? toBlock : start + MAX
ChunkEnd(from, toBlock) ==
  IF from + MAX_BLOCKS_PER_QUERY > toBlock THEN toBlock
  ELSE from + MAX_BLOCKS_PER_QUERY

RECURSIVE FetchLogsInChunks(_, _, _, _)
FetchLogsInChunks(ch, dest, fromBlock, toBlock) ==
  IF fromBlock <= toBlock
  THEN GetLogs(ch, dest, fromBlock, ChunkEnd(fromBlock, toBlock))
         \o FetchLogsInChunks(ch, dest, NextStart(fromBlock), toBlock)
  ELSE <<>>

\* ------------------------------------------------ fetchBurnsSinceBlock

\* JavaScript truthiness of args.value (a bigint or undefined) and args.from
TruthyValue(v) == v # Undefined /\ v # 0
TruthyAddress(a) == a # NoAddress

HasTx(entries, txHash) == \E i \in DOMAIN entries : entries[i].txHash = txHash

\* for (const log of xLogs) if (!burnsByTx.has(hash)) burnsByTx.set(hash, ...)
\* the Map keeps insertion order, so it is a sequence of entries
RECURSIVE MergeInto(_, _, _)
MergeInto(entries, ls, dest) ==
  IF ls = <<>> THEN entries
  ELSE MergeInto(IF HasTx(entries, Head(ls).transactionHash) THEN entries
                 ELSE Append(entries, [txHash |-> Head(ls).transactionHash,
                                       log |-> Head(ls), destination |-> dest]),
                 Tail(ls), dest)

\* a buggy merge: the dead logs are set first
BurnsByTxDeadFirst(firepitLogs, deadLogs) ==
  MergeInto(MergeInto(<<>>, deadLogs, "dead"), firepitLogs, "firepit")

BurnsByTx(firepitLogs, deadLogs) ==
  MergeInto(MergeInto(<<>>, firepitLogs, "firepit"), deadLogs, "dead")

\* the entries kept: log.args.value && log.args.from
BurnEntries(entries) ==
  SelectSeq(entries, LAMBDA e : TruthyValue(e.log.value) /\ TruthyAddress(e.log.from))

BurnEventOf(e) ==
  [txHash |-> e.txHash, blockNumber |-> e.log.blockNumber,
   uniAmountRaw |-> e.log.value, burner |-> e.log.from,
   destination |-> e.destination]

\* a buggy sort: an element goes before the elements of the same block
RECURSIVE InsertByBlockUnstable(_, _)
InsertByBlockUnstable(sorted, b) ==
  IF sorted = <<>> THEN <<b>>
  ELSE IF sorted[Len(sorted)].blockNumber < b.blockNumber THEN Append(sorted, b)
  ELSE Append(InsertByBlockUnstable(SubSeq(sorted, 1, Len(sorted) - 1), b),
              sorted[Len(sorted)])

\* Array.prototype.sort with (a, b) => a.blockNumber - b.blockNumber: stable
RECURSIVE InsertByBlock(_, _)
InsertByBlock(sorted, b) ==
  IF sorted = <<>> THEN <<b>>
  ELSE IF sorted[Len(sorted)].blockNumber <= b.blockNumber THEN Append(sorted, b)
  ELSE Append(InsertByBlock(SubSeq(sorted, 1, Len(sorted) - 1), b), sorted[Len(sorted)])

RECURSIVE SortByBlock(_)
SortByBlock(bs) ==
  IF bs = <<>> THEN <<>>
  ELSE InsertByBlock(SortByBlock(SubSeq(bs, 1, Len(bs) - 1)), bs[Len(bs)])

\* lines "Combine and deduplicate by txHash" to the return
Reconcile(firepitLogs, deadLogs) ==
  LET kept == BurnEntries(BurnsByTx(firepitLogs, deadLogs))
  IN  SortByBlock([i \in DOMAIN kept |-> BurnEventOf(kept[i])])

\* fetchBurnsSinceBlock(fromBlock, config) with currentBlock as the provider
\* reported it
FetchBurnsSinceBlock(ch, fromBlock, currentBlock) ==
  IF fromBlock >= currentBlock THEN <<>>
  ELSE Reconcile(FetchLogsInChunks(ch, "firepit", fromBlock, currentBlock),
                 FetchLogsInChunks(ch, "dead", fromBlock, currentBlock))

\* ------------------------------------------------------------ the scanner

\* error: what threw in the execution ("none" while nothing did); failedTx:
\* the transaction whose lookup was rejected; atStart: the tables and the
\* channel as the execution found them
IdleCycle ==
  [pc |-> "idle", fromBlock |-> 0, toBlock |-> 0, currentBlock |-> 0,
   burns |-> <<>>, idx |-> 1, outcome |-> <<>>, error |-> "none",
   failedTx |-> "none", atStart |-> <<>>]

\* chains of the scanner's runs: two burns in the two blocks after the head
\* of the start, in one block or in both
EventBlocks == (InitHead + 1)..(InitHead + 2)

MainChains ==
  {<<Log("tA", p[1], "firepit", "0xA", 5), Log("tB", p[2], "dead", "0xB", 7)>> :
     p \in {q \in EventBlocks \X EventBlocks : q[1] <= q[2]}}

Checkpoint == GetLastProcessedBlock(stateTable)

\* a start at which every required setting is present and the notification
\* sink and the log source both answer
Reachable == [settings |-> TRUE, sink |-> TRUE, source |-> TRUE]

UnitIdle ==
  /\ range = [fromBlock |-> 0, toBlock |-> 0, to |-> "firepit"]
  /\ start = <<>>
  /\ requests = <<>>
  /\ logs = <<>>
  /\ lists = [firepitLogs |-> <<>>, deadLogs |-> <<>>]
  /\ reconciled = <<>>
  /\ inserted = <<>>
  /\ raised = FALSE
  /\ channel = {}
  /\ db = "open"
  /\ env = Reachable
  /\ backfill = IdleBackfill

Init ==
  /\ chain \in MainChains
  /\ head = InitHead
  /\ burnsTable = <<>>
  /\ stateTable = {}
  /\ cycle = [s \in Slots |-> IdleCycle]
  /\ phase = "starting"
  /\ UnitIdle

\* a buggy start: the cycle resumes after the newest recorded burn whenever
\* there is one, whatever checkpoint is stored
BeginFromRecords(s) ==
  LET found == <<[burns |-> burnsTable, state |-> stateTable, channel |-> channel]>>
      newest == burnsTable[Len(burnsTable)].blockNumber
  IN  cycle' = [cycle EXCEPT ![s] =
                  IF Checkpoint = <<>>
                  THEN [IdleCycle EXCEPT !.pc = "head", !.atStart = found]
                  ELSE [IdleCycle EXCEPT !.pc = "fetch", !.atStart = found,
                                         !.fromBlock = IF burnsTable = <<>>
                                                         THEN Checkpoint[1] + 1
                                                         ELSE newest + 1]]

\* processNewBurns up to its first await: the checkpoint is read
Begin(s) ==
  LET found == <<[burns |-> burnsTable, state |-> stateTable, channel |-> channel]>>
  IN  cycle' = [cycle EXCEPT ![s] =
                  IF Checkpoint = <<>>
                  THEN [IdleCycle EXCEPT !.pc = "head", !.atStart = found]
                  ELSE [IdleCycle EXCEPT !.pc = "fetch", !.atStart = found,
                                         !.fromBlock = Checkpoint[1] + 1]]

\* startPolling: await processNewBurns(config), before setInterval
StartPolling ==
  /\ phase = "starting"
  /\ Begin(1)
  /\ phase' = "first"
  /\ UNCHANGED <<chain, head, burnsTable, stateTable>>
  /\ UNCHANGED <<fetchVars, reconcileVars, storeVars, backfillVars, channel, db, env>>

\* the setInterval callback: it runs whether or not an earlier call returned
TimerFire(s) ==
  /\ phase = "interval"
  /\ cycle[s].pc = "idle"
  /\ \A t \in Slots : t < s => cycle[t].pc # "idle"
  /\ Begin(s)
  /\ UNCHANGED <<chain, head, burnsTable, stateTable, phase>>
  /\ UNCHANGED <<fetchVars, reconcileVars, storeVars, backfillVars, channel, db, env>>

\* first run: fromBlock = currentBlock - INITIAL_LOOKBACK_BLOCKS
ColdStart(s) ==
  /\ cycle[s].pc = "head"
  /\ cycle' = [cycle EXCEPT ![s].pc = "fetch",
                            ![s].currentBlock = head,
                            ![s].fromBlock = head - INITIAL_LOOKBACK_BLOCKS]
  /\ UNCHANGED <<chain, head, burnsTable, stateTable, phase>>
  /\ UNCHANGED <<fetchVars, reconcileVars, storeVars, backfillVars, channel, db, env>>

\* const burns = await fetchBurnsSinceBlock(fromBlock, config)
Fetch(s) ==
  /\ cycle[s].pc = "fetch"
  /\ LET burns == FetchBurnsSinceBlock(chain, cycle[s].fromBlock, head)
     IN  cycle' = [cycle EXCEPT ![s].burns = burns,
                                ![s].toBlock = head,
                                ![s].currentBlock = head,
                                ![s].pc = IF burns = <<>> THEN "empty" ELSE "loop"]
  /\ UNCHANGED <<chain, head, burnsTable, stateTable, phase>>
  /\ UNCHANGED <<fetchVars, reconcileVars, storeVars, backfillVars, channel, db, env>>

\* a provider error inside fetchBurnsSinceBlock: caught by the outer catch
FetchThrows(s) ==
  /\ cycle[s].pc = "fetch"
  /\ cycle' = [cycle EXCEPT ![s].pc = "done"]
  /\ UNCHANGED <<chain, head, burnsTable, stateTable, phase>>
  /\ UNCHANGED <<fetchVars, reconcileVars, storeVars, backfillVars, channel, db, env>>

\* if (burns.length === 0) { setLastProcessedBlock(await getCurrentBlockNumber()) }
EmptyAdvance(s) ==
  /\ cycle[s].pc = "empty"
  /\ stateTable' = SetLastProcessedBlock(stateTable, head)
  /\ cycle' = [cycle EXCEPT ![s].pc = "done", ![s].currentBlock = head]
  /\ UNCHANGED <<chain, head, burnsTable, phase>>
  /\ UNCHANGED <<fetchVars, reconcileVars, storeVars, backfillVars, channel, db, env>>

Current(s) == cycle[s].burns[cycle[s].idx]

InLoop(s) == cycle[s].pc = "loop" /\ cycle[s].idx <= Len(cycle[s].burns)

\* if (isBurnNotified(burn.txHash)) continue
SkipNotified(s) ==
  /\ InLoop(s)
  /\ IsBurnNotified(burnsTable, Current(s).txHash)
  /\ cycle' = [cycle EXCEPT ![s].idx = @ + 1,
                            ![s].outcome = Append(@, "skip")]
  /\ UNCHANGED <<chain, head, burnsTable, stateTable, phase>>
  /\ UNCHANGED <<fetchVars, reconcileVars, storeVars, backfillVars, channel, db, env>>

\* await sendBurnAlert(...) resolves
SendAlert(s) ==
  /\ InLoop(s)
  /\ ~IsBurnNotified(burnsTable, Current(s).txHash)
  /\ cycle' = [cycle EXCEPT ![s].pc = "save"]
  /\ channel' = channel \cup {Current(s).txHash}
  /\ UNCHANGED <<chain, head, burnsTable, stateTable, phase>>
  /\ UNCHANGED <<fetchVars, reconcileVars, storeVars, backfillVars, db, env>>

\* the checkpoint the loop writes after a burn whose alert failed
\* (a buggy variant: it is written only after a delivered burn)
AfterFailedAlertKeep(st, blockNumber) == st

\* setLastProcessedBlock(BigInt(burn.blockNumber)) after the catch
AfterFailedAlert(st, blockNumber) == SetLastProcessedBlock(st, blockNumber)

\* a buggy variant: saveBurn stands outside the try, so the burn is recorded
\* although its alert was rejected
SendAlertFailsSaves(s) ==
  /\ InLoop(s)
  /\ ~IsBurnNotified(burnsTable, Current(s).txHash)
  /\ burnsTable' = SaveBurn(burnsTable, StoredBurn(Current(s))).table
  /\ stateTable' = AfterFailedAlert(stateTable, Current(s).blockNumber)
  /\ cycle' = [cycle EXCEPT ![s].idx = @ + 1,
                            ![s].outcome = Append(@, "fail")]
  /\ UNCHANGED <<chain, head, phase>>
  /\ UNCHANGED <<fetchVars, reconcileVars, storeVars, backfillVars, channel, db, env>>

\* await sendBurnAlert(...) rejects: the catch logs, then the checkpoint is set
SendAlertFails(s) ==
  /\ InLoop(s)
  /\ ~IsBurnNotified(burnsTable, Current(s).txHash)
  /\ stateTable' = AfterFailedAlert(stateTable, Current(s).blockNumber)
  /\ cycle' = [cycle EXCEPT ![s].idx = @ + 1,
                            ![s].outcome = Append(@, "fail")]
  /\ UNCHANGED <<chain, head, burnsTable, phase>>
  /\ UNCHANGED <<fetchVars, reconcileVars, storeVars, backfillVars, channel, db, env>>

\* saveBurn({...}); setLastProcessedBlock(BigInt(burn.blockNumber))
Persist(s) ==
  /\ cycle[s].pc = "save"
  /\ burnsTable' = SaveBurn(burnsTable, StoredBurn(Current(s))).table
  /\ stateTable' = SetLastProcessedBlock(stateTable, Current(s).blockNumber)
  /\ cycle' = [cycle EXCEPT ![s].pc = "loop",
                            ![s].idx = @ + 1,
                            ![s].outcome = Append(@, "ok")]
  /\ UNCHANGED <<chain, head, phase>>
  /\ UNCHANGED <<fetchVars, reconcileVars, storeVars, backfillVars, channel, db, env>>

\* after the loop: setLastProcessedBlock(await getCurrentBlockNumber())
FinalAdvance(s) ==
  /\ cycle[s].pc = "loop"
  /\ cycle[s].idx > Len(cycle[s].burns)
  /\ stateTable' = SetLastProcessedBlock(stateTable, head)
  /\ cycle' = [cycle EXCEPT ![s].pc = "done", ![s].currentBlock = head]
  /\ UNCHANGED <<chain, head, burnsTable, phase>>
  /\ UNCHANGED <<fetchVars, reconcileVars, storeVars, backfillVars, channel, db, env>>

\* processNewBurns returns; after the first one startPolling arms the timer
Return(s) ==
  /\ cycle[s].pc = "done"
  /\ cycle' = [cycle EXCEPT ![s] = IdleCycle]
  /\ phase' = IF phase = "first" THEN "interval" ELSE phase
  /\ UNCHANGED <<chain, head, burnsTable, stateTable>>
  /\ UNCHANGED <<fetchVars, reconcileVars, storeVars, backfillVars, channel, db, env>>

\* the process dies and is started again: the tables survive, the rest is lost
Crash ==
  /\ phase # "starting"
  /\ cycle' = [s \in Slots |-> IdleCycle]
  /\ phase' = "starting"
  /\ UNCHANGED <<chain, head, burnsTable, stateTable>>
  /\ UNCHANGED <<fetchVars, reconcileVars, storeVars, backfillVars, channel, db, env>>

\* the chain grows by a block
HeadAdvance ==
  /\ head < MaxHead
  /\ head' = head + 1
  /\ UNCHANGED <<chain, burnsTable, stateTable, cycle, phase>>
  /\ UNCHANGED <<fetchVars, reconcileVars, storeVars, backfillVars, channel, db, env>>

\* the provider reports a lower head than before (a lagging node, a reorg)
HeadRegress ==
  /\ head > InitHead
  /\ head' = head - 1
  /\ UNCHANGED <<chain, burnsTable, stateTable, cycle, phase>>
  /\ UNCHANGED <<fetchVars, reconcileVars, storeVars, backfillVars, channel, db, env>>

Step(s) ==
  \/ TimerFire(s)
  \/ ColdStart(s)
  \/ Fetch(s)
  \/ FetchThrows(s)
  \/ EmptyAdvance(s)
  \/ SkipNotified(s)
  \/ SendAlert(s)
  \/ SendAlertFails(s)
  \/ Persist(s)
  \/ FinalAdvance(s)
  \/ Return(s)

Next ==
  \/ StartPolling
  \/ \E s \in Slots : Step(s)
  \/ Crash
  \/ HeadAdvance

Spec == Init /\ [][Next]_vars

\* one execution at a time, no crash, and a provider whose head may go back
NextLagging ==
  \/ StartPolling
  \/ Step(1)
  \/ HeadAdvance
  \/ HeadRegress

SpecLagging == Init /\ [][NextLagging]_vars

\* one execution at a time in which nothing fails: every request is answered
\* and every alert is delivered (no burn is fetched twice in such a run, so
\* the skip of a recorded burn has no part in it)
NextReliable ==
  \/ StartPolling
  \/ TimerFire(1)
  \/ ColdStart(1)
  \/ Fetch(1)
  \/ EmptyAdvance(1)
  \/ SendAlert(1)
  \/ Persist(1)
  \/ FinalAdvance(1)
  \/ Return(1)
  \/ HeadAdvance

SpecReliable == Init /\ [][NextReliable]_vars

\* ------------------------------------------------------------- the scanner's claims

Active(s) == cycle[s].pc \notin {"idle", "done"}

Recorded(txHash) == IsBurnNotified(burnsTable, txHash)

AtMost(blockNumber) == Checkpoint = <<>> \/ Checkpoint[1] <= blockNumber

\* C1 (as claimed): when a cycle ends in which the alert of a burn at block N
\* failed and the alert of a later burn was delivered, the checkpoint is at
\* most N - 1 and the store has no record of the failed burn.
C1_HeldBackCheckpoint ==
  \A s \in Slots :
    cycle[s].pc = "done" =>
      \A i \in DOMAIN cycle[s].outcome :
        (/\ cycle[s].outcome[i] = "fail"
         /\ \E j \in DOMAIN cycle[s].outcome :
              /\ j > i
              /\ cycle[s].outcome[j] = "ok"
              /\ cycle[s].burns[j].blockNumber > cycle[s].burns[i].blockNumber)
        => /\ AtMost(cycle[s].burns[i].blockNumber - 1)
           /\ ~Recorded(cycle[s].burns[i].txHash)

\* C2 (as claimed): a burn whose alert failed and that has no record is not
\* left behind the checkpoint, so the cycles to come still scan its block.
C2_FailedBurnStaysAhead ==
  \A s \in Slots :
    \A i \in DOMAIN cycle[s].outcome :
      (cycle[s].outcome[i] = "fail" /\ ~Recorded(cycle[s].burns[i].txHash))
      => AtMost(cycle[s].burns[i].blockNumber - 1)

\* C3 (as claimed): no step lowers the stored checkpoint, also when the
\* provider reports a head below an earlier one.
C3_CheckpointMonotone ==
  [][(Checkpoint # <<>> /\ GetLastProcessedBlock(stateTable') # <<>>)
       => GetLastProcessedBlock(stateTable')[1] >= Checkpoint[1]]_vars

\* the highest fromBlock a first cycle can have
FirstFromBlock == MaxHead - INITIAL_LOOKBACK_BLOCKS

\* C4 (as claimed): when no request and no alert ever fails, at the end of a
\* cycle the checkpoint is the head the cycle saw last and every burn from the
\* first fromBlock up to the checkpoint has a record.
C4_NoGapCheckpoint ==
  cycle[1].pc = "done" =>
    /\ Checkpoint = <<cycle[1].currentBlock>>
    /\ \A i \in DOMAIN chain :
         (chain[i].blockNumber >= FirstFromBlock
          /\ chain[i].blockNumber <= Checkpoint[1])
         => Recorded(chain[i].transactionHash)

\* C5 (as claimed): when the process dies between the delivery of an alert
\* and the insert of its record, the burn's block is still above the stored
\* checkpoint, so the cycle after the restart fetches it again.
C5_CrashLeavesBurnAhead ==
  [][Crash =>
       \A s \in Slots :
         cycle[s].pc = "save" => AtMost(Current(s).blockNumber - 1)]_vars

\* C6 (as claimed): two executions of processNewBurns are never in progress
\* at the same time.
C6_NonOverlappingCycles == Cardinality({s \in Slots : Active(s)}) <= 1

\* ---------------------------------------- fetchLogsInChunks on its own

\* a chain with a transfer to the firepit in every block, a second one in
\* every fifth block and a transfer to the dead address in every other block
BlockLogs(b) ==
  <<Log(<<b, 0>>, b, "firepit", "0xA", 5)>>
    \o (IF b % 2 = 0 THEN <<Log(<<b, 1>>, b, "dead", "0xB", 7)>> ELSE <<>>)
    \o (IF b % 5 = 0 THEN <<Log(<<b, 2>>, b, "firepit", "0xC", 9)>> ELSE <<>>)

RECURSIVE DenseChain(_)
DenseChain(b) == IF b < 0 THEN <<>> ELSE DenseChain(b - 1) \o BlockLogs(b)

SparseChain(b) == SelectSeq(DenseChain(b), LAMBDA l : l.blockNumber % 3 = 1)

InitFetch ==
  /\ chain \in {DenseChain(MaxRangeBlock), SparseChain(MaxRangeBlock)}
  /\ head = InitHead
  /\ burnsTable = <<>>
  /\ stateTable = {}
  /\ cycle = [s \in Slots |-> IdleCycle]
  /\ phase = "starting"
  /\ range \in [fromBlock : 0..MaxRangeBlock, toBlock : 0..MaxRangeBlock,
                to : Destinations]
  /\ start = <<range.fromBlock>>
  /\ requests = <<>>
  /\ logs = <<>>
  /\ lists = [firepitLogs |-> <<>>, deadLogs |-> <<>>]
  /\ reconciled = <<>>
  /\ inserted = <<>>
  /\ raised = FALSE
  /\ channel = {}
  /\ db = "open"
  /\ env = Reachable
  /\ backfill = IdleBackfill

\* one turn of the for loop: a getLogs request and logs.push(...chunk)
FetchChunk ==
  /\ start # <<>>
  /\ start[1] <= range.toBlock
  /\ LET end == ChunkEnd(start[1], range.toBlock)
     IN  /\ requests' = Append(requests, [fromBlock |-> start[1], toBlock |-> end])
         /\ logs' = logs \o GetLogs(chain, range.to, start[1], end)
  /\ start' = <<NextStart(start[1])>>
  /\ UNCHANGED <<range, scannerVars, reconcileVars, storeVars, backfillVars, channel, db, env>>

\* the loop condition fails: return logs
FetchReturn ==
  /\ start # <<>>
  /\ start[1] > range.toBlock
  /\ start' = <<>>
  /\ UNCHANGED <<range, requests, logs, scannerVars, reconcileVars, storeVars,
                 backfillVars, channel, db, env>>

NextFetch == FetchChunk \/ FetchReturn

SpecFetch == InitFetch /\ [][NextFetch]_vars

\* backfill.ts: toBlock of the chunk that starts at fromBlock
BackfillToBlock(fromBlock, currentBlock) ==
  IF fromBlock + BACKFILL_MAX_BLOCKS_PER_QUERY - 1 > currentBlock THEN currentBlock
  ELSE fromBlock + BACKFILL_MAX_BLOCKS_PER_QUERY - 1

Covering(b) ==
  {i \in DOMAIN requests : requests[i].fromBlock <= b /\ b <= requests[i].toBlock}

\* C9: once fetchLogsInChunks returned for fromBlock <= toBlock, its requests
\* start at fromBlock, each begins one block after the one before ended, the
\* last ends at toBlock, every block of the range lies in exactly one request,
\* and the logs returned are those of one request over the whole range.
C9_ChunkingCorrect ==
  (start = <<>> /\ range.fromBlock <= range.toBlock) =>
    /\ requests # <<>>
    /\ requests[1].fromBlock = range.fromBlock
    /\ requests[Len(requests)].toBlock = range.toBlock
    /\ \A i \in DOMAIN requests : requests[i].fromBlock <= requests[i].toBlock
    /\ \A i \in DOMAIN requests :
         i < Len(requests) => requests[i + 1].fromBlock = requests[i].toBlock + 1
    /\ \A b \in range.fromBlock..range.toBlock : Cardinality(Covering(b)) = 1
    /\ logs = GetLogs(chain, range.to, range.fromBlock, range.toBlock)
    /\ logs = FetchLogsInChunks(chain, range.to, range.fromBlock, range.toBlock)

\* a fetch of three requests, the last one clipped, that returned logs
C9_Witness ==
  /\ start = <<>>
  /\ Len(requests) = 3
  /\ requests[3].toBlock - requests[3].fromBlock < MAX_BLOCKS_PER_QUERY
  /\ Len(logs) > Len(requests)

\* C10 (as claimed): every getLogs request of the chunked fetcher and of the
\* backfill loop spans at most MAX_BLOCKS_PER_QUERY blocks, bounds included.
C10_RequestWithinLimit ==
  /\ \A i \in DOMAIN requests :
       requests[i].toBlock - requests[i].fromBlock + 1 <= MAX_BLOCKS_PER_QUERY
  /\ \A f \in 0..MaxRangeBlock :
       \A c \in f..MaxRangeBlock :
         BackfillToBlock(f, c) - f + 1 <= BACKFILL_MAX_BLOCKS_PER_QUERY

\* ------------------------------------------------ the reconciler on its own

\* three transactions, two of them in one block
TxBlocks == <<[tx |-> "tA", block |-> 2], [tx |-> "tB", block |-> 1],
              [tx |-> "tC", block |-> 2]>>

\* the args of a log: a positive amount, the amount zero, no decoded value,
\* no decoded source address
LogArgs == {[from |-> "0xA", value |-> 5], [from |-> "0xA", value |-> 0],
            [from |-> "0xA", value |-> Undefined], [from |-> NoAddress, value |-> 5]}

\* what the provider may return for the filter {to: dest}
LogPool(dest) ==
  {Log(TxBlocks[k].tx, TxBlocks[k].block, dest, a.from, a.value) :
     k \in DOMAIN TxBlocks, a \in LogArgs}

Ascending(ls) ==
  \A i \in DOMAIN ls : i < Len(ls) => ls[i].blockNumber <= ls[i + 1].blockNumber

\* the provider answers in block order
LogLists(dest, n) ==
  UNION {{ls \in [1..k -> LogPool(dest)] : Ascending(ls)} : k \in 0..n}

InitReconcile ==
  /\ chain = <<>>
  /\ head = InitHead
  /\ burnsTable = <<>>
  /\ stateTable = {}
  /\ cycle = [s \in Slots |-> IdleCycle]
  /\ phase = "starting"
  /\ range = [fromBlock |-> 0, toBlock |-> 0, to |-> "firepit"]
  /\ start = <<>>
  /\ requests = <<>>
  /\ logs = <<>>
  /\ \E n \in 0..MaxLogs :
       lists \in [firepitLogs : LogLists("firepit", n),
                  deadLogs : LogLists("dead", MaxLogs - n)]
  /\ reconciled = <<>>
  /\ inserted = <<>>
  /\ raised = FALSE
  /\ channel = {}
  /\ db = "open"
  /\ env = Reachable
  /\ backfill = IdleBackfill

\* fetchBurnsSinceBlock from "Combine and deduplicate by txHash" on
ReconcileLists ==
  /\ reconciled = <<>>
  /\ reconciled' = <<Reconcile(lists.firepitLogs, lists.deadLogs)>>
  /\ UNCHANGED <<lists, scannerVars, fetchVars, storeVars, backfillVars, channel, db, env>>

NextReconcile == ReconcileLists

SpecReconcile == InitReconcile /\ [][NextReconcile]_vars

TxsOf(ls) == {ls[i].transactionHash : i \in DOMAIN ls}

Decoded(ls) ==
  \A i \in DOMAIN ls : ls[i].value # Undefined /\ ls[i].from # NoAddress

\* C7 (as claimed, for lists whose logs all carry a value and a source
\* address): the reconciled list has at most one event per transaction hash,
\* and a transaction with logs in both lists has exactly one event, whose
\* destination is the firepit.
C7_OneEventFirepitFirst ==
  (reconciled # <<>> /\ Decoded(lists.firepitLogs) /\ Decoded(lists.deadLogs)) =>
    LET out == reconciled[1]
    IN  /\ \A i, j \in DOMAIN out : out[i].txHash = out[j].txHash => i = j
        /\ \A tx \in TxsOf(lists.firepitLogs) \cap TxsOf(lists.deadLogs) :
             /\ Cardinality({i \in DOMAIN out : out[i].txHash = tx}) = 1
             /\ \A i \in DOMAIN out :
                  out[i].txHash = tx => out[i].destination = "firepit"

\* ------------------------------------------------------ the store on its own

StoreRows ==
  [txHash : {"tA", "tB"}, blockNumber : {1, 2}, uniAmountRaw : {5},
   burner : {"0xA"}, destination : Destinations]

InitStore ==
  /\ chain = <<>>
  /\ head = InitHead
  /\ burnsTable = <<>>
  /\ stateTable = {}
  /\ cycle = [s \in Slots |-> IdleCycle]
  /\ phase = "starting"
  /\ UnitIdle

\* await saveBurn(row)
CallSaveBurn ==
  /\ Len(inserted) < MaxInserts
  /\ \E row \in StoreRows :
       /\ burnsTable' = SaveBurn(burnsTable, row).table
       /\ raised' = SaveBurn(burnsTable, row).error
       /\ inserted' = Append(inserted, row)
  /\ UNCHANGED <<chain, head, stateTable, cycle, phase, fetchVars, reconcileVars,
                 backfillVars, channel, db, env>>

NextStore == CallSaveBurn

SpecStore == InitStore /\ [][NextStore]_vars

RowsOf(txHash) == {i \in DOMAIN burnsTable : burnsTable[i].txHash = txHash}

FirstInserted(txHash) ==
  inserted[CHOOSE i \in DOMAIN inserted :
             /\ inserted[i].txHash = txHash
             /\ \A j \in DOMAIN inserted : inserted[j].txHash = txHash => i <= j]

\* C8: after any calls of saveBurn the table holds one row per txHash that was
\* passed, that row is the one passed first for the txHash, there is no other
\* row, and no call raised an error.
C8_IdempotentInsert ==
  /\ \A i \in DOMAIN inserted :
       /\ Cardinality(RowsOf(inserted[i].txHash)) = 1
       /\ \A k \in RowsOf(inserted[i].txHash) :
            burnsTable[k] = FirstInserted(inserted[i].txHash)
  /\ \A k \in DOMAIN burnsTable : \E i \in DOMAIN inserted : inserted[i] = burnsTable[k]
  /\ ~raised

\* a txHash was passed twice, the second time with another content
C8_Witness ==
  \E i, j \in DOMAIN inserted :
    /\ i < j
    /\ inserted[i].txHash = inserted[j].txHash
    /\ inserted[i] # inserted[j]
    /\ Len(burnsTable) < Len(inserted)

\* ------------------------------------------- the start of a cycle on its own

\* heads the provider reports when the process starts
RangeHeads == {InitHead, 100000}

\* state table of a process that starts: empty, or a checkpoint at or below
\* the head
RangeStates(h) ==
  {{}} \cup {SetLastProcessedBlock({}, h - k) : k \in 0..MaxRangeBlock}

InitRange ==
  /\ chain = <<>>
  /\ head \in RangeHeads
  /\ burnsTable = <<>>
  /\ stateTable \in RangeStates(head)
  /\ cycle = [s \in Slots |-> IdleCycle]
  /\ phase = "starting"
  /\ UnitIdle

\* cycles of one execution at a time over a chain at rest without burns
NextRange ==
  \/ StartPolling
  \/ TimerFire(1)
  \/ ColdStart(1)
  \/ Fetch(1)
  \/ EmptyAdvance(1)
  \/ Return(1)

SpecRange == InitRange /\ [][NextRange]_vars

\* C11 (as claimed): a cycle about to fetch scans from the checkpoint plus one
\* when a checkpoint is stored, and from the head minus the lookback when none
\* is: with the documented lookback of 600 blocks a head of 100,000 gives
\* 99,400.
C11_RangeSelection ==
  cycle[1].pc = "fetch" =>
    /\ Checkpoint # <<>> => cycle[1].fromBlock = Checkpoint[1] + 1
    /\ (Checkpoint = <<>> /\ head = 100000) => cycle[1].fromBlock = 99400

\* ------------------------------------------------------ the alert threshold

\* config.amountThreshold (AMOUNT_THRESHOLD, 4000 UNI by default), on the
\* scale of the amounts of MainChains: the burn tA is below it, tB is not
AmountThreshold == 6

BelowThreshold(burn) == burn.uniAmountRaw < AmountThreshold

\* C12 (as claimed): sendBurnAlert is never invoked for a fetched burn whose
\* raw amount is below the threshold, whether the call then resolves or
\* rejects.
C12_ThresholdSuppression ==
  \A s \in Slots :
    /\ cycle[s].pc = "save" => ~BelowThreshold(Current(s))
    /\ \A i \in DOMAIN cycle[s].outcome :
         BelowThreshold(cycle[s].burns[i]) => cycle[s].outcome[i] \notin {"ok", "fail"}

\* ------------------------------------------------------- the backfill script

\* backfill.ts: const FIREPIT_DEPLOYMENT_BLOCK = 24028203n
FIREPIT_DEPLOYMENT_BLOCK == 24028203

\* blocks between the deployment block and the head of a backfill run
MaxBackfillSpan == 12

\* failed attempts in a row the provider makes on one chunk
MaxAttempts == 3

BackfillHead == FIREPIT_DEPLOYMENT_BLOCK + MaxBackfillSpan

\* tx.from of client.getTransaction({hash})
TxFrom(txHash) ==
  CASE txHash = "tA" -> "0xSenderA"
    [] txHash = "tB" -> "0xSenderB"
    [] txHash = "tC" -> "0xSenderC"
    [] OTHER -> "0xSender"

\* the chains a backfill runs over: burns in the first and the second chunk,
\* a transaction with a transfer to each sink, a log without a decoded value
BackfillChains ==
  LET d == FIREPIT_DEPLOYMENT_BLOCK
      tA == Log("tA", d + 1, "firepit", "0xA", 5)
      tB == Log("tB", d + 10, "dead", "0xB", 7)
  IN  {<<tA, tB>>,
       <<tA, Log("tC", d + 3, "firepit", "0xC", 9), Log("tC", d + 3, "dead", "0xC", 9), tB>>,
       <<tA, Log("tD", d + 2, "dead", "0xD", Undefined)>>}

\* the row processAndSaveBurn passes to saveBurn
BackfillRow(log, destination) ==
  [txHash |-> log.transactionHash, blockNumber |-> log.blockNumber,
   uniAmountRaw |-> log.value, burner |-> TxFrom(log.transactionHash),
   destination |-> destination]

\* a buggy variant: the record is saved the way the scanner does it, with the
\* checkpoint set to the block of the burn
ProcessAndSaveBurnCheckpointed(burns, state, log, destination, lookupOk) ==
  IF ~TruthyValue(log.value) \/ ~TruthyAddress(log.from) \/ ~lookupOk
  THEN [burns |-> burns, state |-> state, result |-> "error"]
  ELSE [burns |-> SaveBurn(burns, BackfillRow(log, destination)).table,
        state |-> SetLastProcessedBlock(state, log.blockNumber),
        result |-> "saved"]

\* processAndSaveBurn(client, log, destination, config) on the two tables;
\* lookupOk: getTransaction, getTransactionReceipt and getBlock all answered.
\* A rejected saveBurn is taken for a duplicate ("skipped").
ProcessAndSaveBurn(burns, state, log, destination, lookupOk) ==
  IF ~TruthyValue(log.value) \/ ~TruthyAddress(log.from)
  THEN [burns |-> burns, state |-> state, result |-> "error"]
  ELSE IF ~lookupOk
  THEN [burns |-> burns, state |-> state, result |-> "error"]
  ELSE LET saved == SaveBurn(burns, BackfillRow(log, destination))
       IN  [burns |-> saved.table, state |-> state,
            result |-> IF saved.error THEN "skipped" ELSE "saved"]

InitBackfill ==
  /\ chain \in BackfillChains
  /\ head = BackfillHead
  /\ burnsTable = <<>>
  /\ stateTable \in {{}, SetLastProcessedBlock({}, FIREPIT_DEPLOYMENT_BLOCK + 5)}
  /\ cycle = [s \in Slots |-> IdleCycle]
  /\ phase = "starting"
  /\ range = [fromBlock |-> 0, toBlock |-> 0, to |-> "firepit"]
  /\ start = <<>>
  /\ requests = <<>>
  /\ logs = <<>>
  /\ lists = [firepitLogs |-> <<>>, deadLogs |-> <<>>]
  /\ reconciled = <<>>
  /\ inserted = <<>>
  /\ raised = FALSE
  /\ channel = {}
  /\ db = "open"
  /\ env = Reachable
  /\ backfill = [IdleBackfill EXCEPT !.pc = "start", !.run = 1]

\* backfillBurns up to the loop: currentBlock is read once
BackfillStart ==
  /\ backfill.pc = "start"
  /\ backfill' = [IdleBackfill EXCEPT !.pc = "loop",
                                      !.run = backfill.run,
                                      !.firstTable = backfill.firstTable,
                                      !.currentBlock = head,
                                      !.fromBlock = FIREPIT_DEPLOYMENT_BLOCK]
  /\ UNCHANGED <<scannerVars, channel, db, env, fetchVars, reconcileVars, storeVars>>

\* one turn of the loop in which both getLogs requests are answered
BackfillGetLogs ==
  /\ backfill.pc = "loop"
  /\ backfill.fromBlock <= backfill.currentBlock
  /\ LET toBlock == BackfillToBlock(backfill.fromBlock, backfill.currentBlock)
         firepitLogs == GetLogs(chain, "firepit", backfill.fromBlock, toBlock)
         deadLogs == GetLogs(chain, "dead", backfill.fromBlock, toBlock)
     IN  backfill' = [backfill EXCEPT
                        !.pc = "firepit", !.idx = 1, !.toBlock = toBlock,
                        !.firepitLogs = firepitLogs, !.deadLogs = deadLogs,
                        !.totalFirepitBurns = @ + Len(firepitLogs),
                        !.totalDeadBurns = @ + Len(deadLogs),
                        !.attempts = @ + 1,
                        !.chunks = Append(@, [fromBlock |-> backfill.fromBlock,
                                              toBlock |-> toBlock])]
  /\ UNCHANGED <<scannerVars, channel, db, env, fetchVars, reconcileVars, storeVars>>

\* a buggy catch: the step back is missing, so the loop goes on to the chunk
\* after the failed one
AfterChunkErrorSkip(fromBlock) == fromBlock + BACKFILL_MAX_BLOCKS_PER_QUERY

\* the chunk the loop continues with after the catch:
\* fromBlock -= MAX_BLOCKS_PER_QUERY, then the loop's fromBlock += MAX_BLOCKS_PER_QUERY
AfterChunkError(fromBlock) ==
  (fromBlock - BACKFILL_MAX_BLOCKS_PER_QUERY) + BACKFILL_MAX_BLOCKS_PER_QUERY

\* a getLogs request of the turn rejects: the catch sleeps and steps back
BackfillGetLogsThrows ==
  /\ backfill.pc = "loop"
  /\ backfill.fromBlock <= backfill.currentBlock
  /\ backfill.attempts < MaxAttempts
  /\ backfill' = [backfill EXCEPT
                    !.fromBlock = AfterChunkError(@),
                    !.toBlock = BackfillToBlock(backfill.fromBlock, backfill.currentBlock),
                    !.attempts = @ + 1,
                    !.failures = @ + 1,
                    !.failed = <<[fromBlock |-> backfill.fromBlock,
                                  toBlock |-> BackfillToBlock(backfill.fromBlock,
                                                              backfill.currentBlock)]>>]
  /\ UNCHANGED <<scannerVars, channel, db, env, fetchVars, reconcileVars, storeVars>>

\* what one call of processAndSaveBurn does to the tables and the counters
BackfillProcess(log, destination, lookupOk) ==
  LET r == ProcessAndSaveBurn(burnsTable, stateTable, log, destination, lookupOk)
  IN  /\ burnsTable' = r.burns
      /\ stateTable' = r.state
      /\ backfill' = [backfill EXCEPT
                        !.idx = @ + 1,
                        !.totalSaved = IF r.result = "saved" THEN @ + 1 ELSE @,
                        !.totalSkipped = IF r.result = "skipped" THEN @ + 1 ELSE @,
                        !.errors = IF r.result = "error"
                                   THEN Append(@, log.transactionHash) ELSE @]

\* for (const log of firepitLogs) processAndSaveBurn(client, log, "firepit", config)
BackfillProcessFirepit ==
  /\ backfill.pc = "firepit"
  /\ backfill.idx <= Len(backfill.firepitLogs)
  /\ \E lookupOk \in BOOLEAN :
       BackfillProcess(backfill.firepitLogs[backfill.idx], "firepit", lookupOk)
  /\ UNCHANGED <<chain, head, cycle, phase, channel, db, env, fetchVars, reconcileVars,
                 storeVars>>

BackfillFirepitDone ==
  /\ backfill.pc = "firepit"
  /\ backfill.idx > Len(backfill.firepitLogs)
  /\ backfill' = [backfill EXCEPT !.pc = "dead", !.idx = 1]
  /\ UNCHANGED <<scannerVars, channel, db, env, fetchVars, reconcileVars, storeVars>>

\* for (const log of deadLogs) processAndSaveBurn(client, log, "dead", config)
BackfillProcessDead ==
  /\ backfill.pc = "dead"
  /\ backfill.idx <= Len(backfill.deadLogs)
  /\ \E lookupOk \in BOOLEAN :
       BackfillProcess(backfill.deadLogs[backfill.idx], "dead", lookupOk)
  /\ UNCHANGED <<chain, head, cycle, phase, channel, db, env, fetchVars, reconcileVars,
                 storeVars>>

\* the end of a turn without an exception: fromBlock += MAX_BLOCKS_PER_QUERY
BackfillChunkDone ==
  /\ backfill.pc = "dead"
  /\ backfill.idx > Len(backfill.deadLogs)
  /\ backfill' = [backfill EXCEPT
                    !.pc = "loop", !.idx = 1, !.attempts = 0, !.failed = <<>>,
                    !.fromBlock = @ + BACKFILL_MAX_BLOCKS_PER_QUERY]
  /\ UNCHANGED <<scannerVars, channel, db, env, fetchVars, reconcileVars, storeVars>>

\* the loop ends: the summary is printed and the database closed
BackfillSummary ==
  /\ backfill.pc = "loop"
  /\ backfill.fromBlock > backfill.currentBlock
  /\ backfill' = [backfill EXCEPT
                    !.pc = "done",
                    !.firstTable = IF backfill.run = 1 THEN burnsTable ELSE @]
  /\ UNCHANGED <<scannerVars, channel, db, env, fetchVars, reconcileVars, storeVars>>

\* the script is run a second time over the same chain
BackfillRerun ==
  /\ backfill.pc = "done"
  /\ backfill.run = 1
  /\ backfill.errors = <<>>
  /\ backfill.failures = 0
  /\ backfill' = [backfill EXCEPT !.pc = "start", !.run = 2]
  /\ UNCHANGED <<scannerVars, channel, db, env, fetchVars, reconcileVars, storeVars>>

NextBackfill ==
  \/ BackfillStart
  \/ BackfillGetLogs
  \/ BackfillGetLogsThrows
  \/ BackfillProcessFirepit
  \/ BackfillFirepitDone
  \/ BackfillProcessDead
  \/ BackfillChunkDone
  \/ BackfillSummary
  \/ BackfillRerun

SpecBackfill == InitBackfill /\ [][NextBackfill]_vars

\* C13 (as claimed): a chunk is attempted at most twice in a row, the second
\* attempt being the one retry after a failure.
C13_RetryOnce == backfill.attempts <= 2

\* a run that met no failure: no chunk was retried and no log ended in "error"
CleanRun == backfill.errors = <<>> /\ backfill.failures = 0

\* C14 (as claimed): after a second run over the same chain, neither run
\* having met a failure, the burns table is what the first run left, the
\* saved count of the second run is 0 and its skipped count is the number of
\* qualifying logs.
C14_BackfillResumable ==
  (backfill.run = 2 /\ backfill.pc = "done" /\ CleanRun) =>
    /\ burnsTable = backfill.firstTable
    /\ backfill.totalSaved = 0
    /\ backfill.totalSkipped = backfill.totalFirepitBurns + backfill.totalDeadBurns

\* the well-formed logs of the range a run scans
WellFormedLogs ==
  {i \in DOMAIN chain :
     /\ chain[i].blockNumber >= FIREPIT_DEPLOYMENT_BLOCK
     /\ chain[i].blockNumber <= backfill.currentBlock
     /\ chain[i].value # Undefined
     /\ chain[i].from # NoAddress}

\* C15 (as claimed): when a run has printed its summary, every well-formed
\* qualifying log between the deployment block and the head has a record.
C15_BackfillComplete ==
  backfill.pc = "done" =>
    \A i \in WellFormedLogs : Recorded(chain[i].transactionHash)

IsPrefix(s, t) == Len(s) <= Len(t) /\ SubSeq(t, 1, Len(s)) = s

\* C16: no step of a backfill run changes the stored checkpoint or delivers
\* an alert to the channel; the burns table only gains rows.
C16_BackfillSilent ==
  [][/\ stateTable' = stateTable
     /\ channel' = channel
     /\ IsPrefix(burnsTable, burnsTable')]_vars

\* a run that ended with records inserted beside a stored checkpoint
C16_Witness ==
  /\ backfill.pc = "done"
  /\ Len(burnsTable) >= 2
  /\ Checkpoint = <<FIREPIT_DEPLOYMENT_BLOCK + 5>>

\* ------------------------------------------- a cycle in which something throws

\* a buggy variant: the exception leaves processNewBurns, and the rejection,
\* which nothing handles, ends the process
AfterCycleErrorFatal(ph) == "exited"

\* catch (error) { console.error("[Bot] Error processing burns:", error) }:
\* what the outer catch of processNewBurns does to the polling
AfterCycleError(ph) == ph

RECURSIVE ChunkStarts(_, _)
ChunkStarts(fromBlock, toBlock) ==
  IF fromBlock > toBlock THEN {}
  ELSE {fromBlock} \cup ChunkStarts(NextStart(fromBlock), toBlock)

\* a buggy variant: the rejected request is skipped and the loop goes on
OnRejectedChunkSkip(rest) == rest

\* await client.getLogs(...) rejects inside the loop of fetchLogsInChunks:
\* nothing catches it there, the logs gathered are lost (rest: the outcome of
\* the turns that would follow)
OnRejectedChunk(rest) == [error |-> TRUE, logs |-> <<>>]

\* fetchLogsInChunks when the request that starts at failStart is rejected
RECURSIVE FetchLogsInChunksFailing(_, _, _, _, _)
FetchLogsInChunksFailing(ch, dest, fromBlock, toBlock, failStart) ==
  IF fromBlock > toBlock THEN [error |-> FALSE, logs |-> <<>>]
  ELSE LET rest == FetchLogsInChunksFailing(ch, dest, NextStart(fromBlock),
                                            toBlock, failStart)
       IN  IF fromBlock = failStart THEN OnRejectedChunk(rest)
           ELSE IF rest.error THEN rest
           ELSE [error |-> FALSE,
                 logs |-> GetLogs(ch, dest, fromBlock, ChunkEnd(fromBlock, toBlock))
                            \o rest.logs]

\* fetchBurnsSinceBlock (fromBlock < currentBlock) when the request of sink
\* failDest that starts at failStart is rejected
FetchBurnsSinceBlockFailing(ch, fromBlock, currentBlock, failDest, failStart) ==
  LET whole(dest) == [error |-> FALSE,
                      logs |-> FetchLogsInChunks(ch, dest, fromBlock, currentBlock)]
      part(dest) == FetchLogsInChunksFailing(ch, dest, fromBlock, currentBlock, failStart)
      f == IF failDest = "firepit" THEN part("firepit") ELSE whole("firepit")
      d == IF failDest = "dead" THEN part("dead") ELSE whole("dead")
  IN  IF f.error \/ d.error THEN [error |-> TRUE, burns |-> <<>>]
      ELSE [error |-> FALSE, burns |-> Reconcile(f.logs, d.logs)]

\* await Promise.all(burnDataPromises) when getTransactionData of rejectedTx
\* rejects: getTransactionData has no catch, so the whole Promise.all rejects
PromiseAll(burns, rejectedTx) ==
  IF \E i \in DOMAIN burns : burns[i].txHash = rejectedTx
  THEN [error |-> TRUE, burns |-> <<>>]
  ELSE [error |-> FALSE, burns |-> burns]

\* the cycle after fetchBurnsSinceBlock ended as r, something having failed
AfterFailedFetch(c, r, what, tx, h) ==
  [c EXCEPT !.error = what, !.failedTx = tx, !.toBlock = h, !.currentBlock = h,
            !.burns = r.burns,
            !.pc = IF r.error THEN "done"
                   ELSE IF r.burns = <<>> THEN "empty" ELSE "loop"]

\* a getLogs request of the cycle's fetch is rejected
FetchFails(s) ==
  /\ cycle[s].pc = "fetch"
  /\ cycle[s].fromBlock < head
  /\ \E failDest \in Destinations :
       \E failStart \in ChunkStarts(cycle[s].fromBlock, head) :
         LET r == FetchBurnsSinceBlockFailing(chain, cycle[s].fromBlock, head,
                                              failDest, failStart)
         IN  /\ cycle' = [cycle EXCEPT ![s] = AfterFailedFetch(@, r, "fetch", "none", head)]
             /\ phase' = IF r.error THEN AfterCycleError(phase) ELSE phase
  /\ UNCHANGED <<chain, head, burnsTable, stateTable>>
  /\ UNCHANGED <<fetchVars, reconcileVars, storeVars, backfillVars, channel, db, env>>

\* getTransaction or getTransactionReceipt is rejected for one of the
\* transactions the fetch found
FetchEnrichFails(s) ==
  /\ cycle[s].pc = "fetch"
  /\ LET burns == FetchBurnsSinceBlock(chain, cycle[s].fromBlock, head)
     IN  \E i \in DOMAIN burns :
           LET r == PromiseAll(burns, burns[i].txHash)
           IN  /\ cycle' = [cycle EXCEPT ![s] =
                              AfterFailedFetch(@, r, "enrich", burns[i].txHash, head)]
               /\ phase' = IF r.error THEN AfterCycleError(phase) ELSE phase
  /\ UNCHANGED <<chain, head, burnsTable, stateTable>>
  /\ UNCHANGED <<fetchVars, reconcileVars, storeVars, backfillVars, channel, db, env>>

\* getCurrentBlockNumber, isBurnNotified, getBurnStats, formatBurnAlert or the
\* setLastProcessedBlock of the end throws: the outer catch ends the cycle
Throws(s) ==
  /\ \/ cycle[s].pc \in {"head", "empty"}
     \/ cycle[s].pc = "loop"
  /\ cycle' = [cycle EXCEPT ![s].pc = "done", ![s].error = "throw"]
  /\ phase' = AfterCycleError(phase)
  /\ UNCHANGED <<chain, head, burnsTable, stateTable>>
  /\ UNCHANGED <<fetchVars, reconcileVars, storeVars, backfillVars, channel, db, env>>

\* saveBurn throws after a delivered alert: the inner catch logs it, and the
\* checkpoint is set as after any burn
SaveThrows(s) ==
  /\ cycle[s].pc = "save"
  /\ stateTable' = AfterFailedAlert(stateTable, Current(s).blockNumber)
  /\ cycle' = [cycle EXCEPT ![s].pc = "loop",
                            ![s].idx = @ + 1,
                            ![s].outcome = Append(@, "unsaved")]
  /\ UNCHANGED <<chain, head, burnsTable, phase>>
  /\ UNCHANGED <<fetchVars, reconcileVars, storeVars, backfillVars, channel, db, env>>

\* one execution at a time, no crash, with every kind of failure (a burn
\* that has a record is behind the checkpoint in such a run, so the skip of a
\* recorded burn has no part in it)
NextFaulty ==
  \/ StartPolling
  \/ TimerFire(1)
  \/ ColdStart(1)
  \/ Fetch(1)
  \/ FetchFails(1)
  \/ FetchEnrichFails(1)
  \/ EmptyAdvance(1)
  \/ SendAlert(1)
  \/ SendAlertFails(1)
  \/ Persist(1)
  \/ SaveThrows(1)
  \/ FinalAdvance(1)
  \/ Throws(1)
  \/ Return(1)
  \/ HeadAdvance

SpecFaulty == Init /\ [][NextFaulty]_vars

AsAtStart(s) ==
  /\ burnsTable = cycle[s].atStart[1].burns
  /\ stateTable = cycle[s].atStart[1].state
  /\ channel = cycle[s].atStart[1].channel

C19_EnrichmentIsolated ==
  cycle[1].error = "enrich" =>
    LET all == FetchBurnsSinceBlock(chain, cycle[1].fromBlock, cycle[1].toBlock)
    IN  \A i \in DOMAIN all :
          all[i].txHash # cycle[1].failedTx =>
            \E j \in DOMAIN cycle[1].burns : cycle[1].burns[j] = all[i]

\* ------------------------------------------------------------------ shutdown

\* SIGINT or SIGTERM once main has registered its handler, after the await
\* of startPolling: stopPolling(), closeDatabase(), process.exit(0)
Shutdown ==
  /\ phase = "interval"
  /\ phase' = "exited"
  /\ db' = "closed"
  /\ cycle' = [s \in Slots |-> IdleCycle]
  /\ UNCHANGED <<chain, head, burnsTable, stateTable, channel, env>>
  /\ UNCHANGED <<fetchVars, reconcileVars, storeVars, backfillVars>>

\* SIGINT or SIGTERM while startPolling still awaits the first cycle: no
\* handler is registered yet and the signal ends the process at once
Killed ==
  /\ phase = "first"
  /\ phase' = "killed"
  /\ cycle' = [s \in Slots |-> IdleCycle]
  /\ UNCHANGED <<chain, head, burnsTable, stateTable, channel, db, env>>
  /\ UNCHANGED <<fetchVars, reconcileVars, storeVars, backfillVars>>

\* cycles in which nothing fails, and a shutdown request at any time
NextShutdown ==
  \/ NextReliable
  \/ Shutdown
  \/ Killed

SpecShutdown == Init /\ [][NextShutdown]_vars

\* C20 (as claimed): after a shutdown request, whenever it arrived, the store
\* connection is closed, no execution of the cycle is in progress and the
\* timer starts none.
C20_ShutdownHonoured ==
  phase \in {"exited", "killed"} =>
    /\ db = "closed"
    /\ \A s \in Slots : cycle[s].pc = "idle"
    /\ \A s \in Slots : ~ENABLED TimerFire(s)

\* C21 (as claimed): once the shutdown handler has ended the process, every
\* burn whose alert reached the channel has its record: a request arriving
\* between delivery and persistence does not lose the record.
C21_ShutdownKeepsRecord ==
  phase = "exited" =>
    \A txHash \in channel : Recorded(txHash)

----------------------------------------------------------------------------
\* Startup: main from its first line to the call of startPolling.

\* loadConfig: requireEnv throws when a required setting is missing
LoadConfig(e) == e.settings

\* testConnection: getMe and getChat answered; any failure is caught and
\* reported as false
TestConnection(e) == e.sink

\* initEthereumClient only builds the client object: it sends no request, and
\* its outcome does not depend on whether the log source answers
InitEthereumClient(e) == TRUE

InitStartup ==
  /\ chain \in MainChains
  /\ head = InitHead
  /\ burnsTable = <<>>
  /\ stateTable = {}
  /\ cycle = [s \in Slots |-> IdleCycle]
  /\ phase = "boot"
  /\ range = [fromBlock |-> 0, toBlock |-> 0, to |-> "firepit"]
  /\ start = <<>>
  /\ requests = <<>>
  /\ logs = <<>>
  /\ lists = [firepitLogs |-> <<>>, deadLogs |-> <<>>]
  /\ reconciled = <<>>
  /\ inserted = <<>>
  /\ raised = FALSE
  /\ channel = {}
  /\ db = "open"
  /\ backfill = IdleBackfill
  /\ env \in [settings : BOOLEAN, sink : BOOLEAN, source : BOOLEAN]

\* main: a thrown error reaches the catch (closeDatabase, exit 1); a failed
\* connection test exits 1 at once; otherwise startPolling is called
Main ==
  /\ phase = "boot"
  /\ IF ~LoadConfig(env) \/ ~InitEthereumClient(env)
       THEN phase' = "failed" /\ db' = "closed"
       ELSE IF ~TestConnection(env)
         THEN phase' = "failed" /\ db' = db
         ELSE phase' = "starting" /\ db' = db
  /\ UNCHANGED <<chain, head, burnsTable, stateTable, cycle, channel, env>>
  /\ UNCHANGED <<fetchVars, reconcileVars, storeVars, backfillVars>>

\* after startup the cycles run as in NextFaulty; while the log source does
\* not answer, every request of a cycle to it is rejected
NextStartup ==
  \/ Main
  \/ env.source /\ NextFaulty
  \/ ~env.source /\ StartPolling
  \/ ~env.source /\ TimerFire(1)
  \/ ~env.source /\ Throws(1)
  \/ ~env.source /\ Return(1)

SpecStartup == InitStartup /\ [][NextStartup]_vars

\* C22 (as claimed): when a required setting is missing, or the notification
\* sink or the log source does not answer at startup, the process never gets
\* past startup: no cycle is begun and no checkpoint is written.
C22_StartupFailureFatal ==
  env # Reachable =>
    /\ phase \in {"boot", "failed"}
    /\ \A s \in Slots : cycle[s].pc = "idle"
    /\ stateTable = {}

----------------------------------------------------------------------------
\* The scanner and a backfill run on the same store.

InitShared ==
  /\ chain \in BackfillChains
  /\ head = BackfillHead
  /\ burnsTable = <<>>
  /\ stateTable \in {{}, SetLastProcessedBlock({}, FIREPIT_DEPLOYMENT_BLOCK + 5)}
  /\ cycle = [s \in Slots |-> IdleCycle]
  /\ phase = "starting"
  /\ range = [fromBlock |-> 0, toBlock |-> 0, to |-> "firepit"]
  /\ start = <<>>
  /\ requests = <<>>
  /\ logs = <<>>
  /\ lists = [firepitLogs |-> <<>>, deadLogs |-> <<>>]
  /\ reconciled = <<>>
  /\ inserted = <<>>
  /\ raised = FALSE
  /\ channel = {}
  /\ db = "open"
  /\ env = Reachable
  /\ backfill = [IdleBackfill EXCEPT !.pc = "start", !.run = 1]

\* the provider answers the scanner from a node one block behind
SharedHeadRegress ==
  /\ head = BackfillHead
  /\ head' = head - 1
  /\ UNCHANGED <<chain, burnsTable, stateTable, cycle, phase>>
  /\ UNCHANGED <<fetchVars, reconcileVars, storeVars, backfillVars, channel, db, env>>

\* the steps of one backfill run whose requests are all answered
BackfillStep ==
  \/ BackfillStart
  \/ BackfillGetLogs
  \/ BackfillProcessFirepit
  \/ BackfillFirepitDone
  \/ BackfillProcessDead
  \/ BackfillChunkDone
  \/ BackfillSummary

\* the steps of the scanner, one cycle at a time
ScannerStep ==
  \/ StartPolling
  \/ TimerFire(1)
  \/ ColdStart(1)
  \/ Fetch(1)
  \/ EmptyAdvance(1)
  \/ SkipNotified(1)
  \/ SendAlert(1)
  \/ Persist(1)
  \/ FinalAdvance(1)
  \/ Return(1)

NextShared ==
  \/ BackfillStep
  \/ ScannerStep
  \/ SharedHeadRegress

SpecShared == InitShared /\ [][NextShared]_vars

\* the burns table holds at most one row for any transaction hash
OneRecordPerTx(table) ==
  \A i, j \in DOMAIN table : table[i].txHash = table[j].txHash => i = j

\* C23 (as claimed): in every interleaving of a backfill run with the scanner
\* the burns table holds at most one record for a transaction, no step of the
\* backfill run changes the checkpoint, no insert of either tool is rejected,
\* and no step lowers the checkpoint.
C23_SharedStore ==
  [][/\ OneRecordPerTx(burnsTable')
     /\ BackfillStep => stateTable' = stateTable
     /\ backfill'.totalSkipped = 0
     /\ \A s \in Slots : cycle'[s].error = "none"
     /\ (Checkpoint # <<>> /\ GetLastProcessedBlock(stateTable') # <<>>)
          => GetLastProcessedBlock(stateTable')[1] >= Checkpoint[1]]_vars

----------------------------------------------------------------------------
\* The scanner without crashes: the timer may fire while a cycle is running.

NextOverlap ==
  \/ StartPolling
  \/ \E s \in Slots : Step(s)
  \/ HeadAdvance

SpecOverlap == Init /\ [][NextOverlap]_vars

\* C24 (as claimed): a burn whose transaction is recorded is passed over with
\* the channel and the burns table untouched, and, no crash occurring, an alert
\* is delivered only for a transaction the channel has not received before.
C24_DedupGuard ==
  [][\A s \in Slots :
       /\ (InLoop(s) /\ IsBurnNotified(burnsTable, Current(s).txHash)
             /\ cycle'[s] # cycle[s])
            => /\ cycle'[s].outcome = Append(cycle[s].outcome, "skip")
               /\ channel' = channel
               /\ burnsTable' = burnsTable
       /\ (InLoop(s) /\ cycle'[s].pc = "save")
            => Current(s).txHash \notin channel]_vars

----------------------------------------------------------------------------
\* Cycles at the edge of the range.

\* the cycle of slot s resumed from a stored checkpoint
Resumed(s) == cycle[s].atStart # <<>> /\ cycle[s].atStart[1].state # {}

\* C25 (as claimed): a resumed cycle whose fromBlock is above the head it
\* observed ends without a burn fetched, an alert sent, a record written or an
\* error raised, and with the checkpoint equal to that head.
C25_IdleCycleNoOp ==
  (cycle[1].pc = "done" /\ Resumed(1) /\ cycle[1].fromBlock > cycle[1].toBlock) =>
    /\ cycle[1].burns = <<>>
    /\ burnsTable = cycle[1].atStart[1].burns
    /\ channel = cycle[1].atStart[1].channel
    /\ cycle[1].error = "none"
    /\ Checkpoint = <<cycle[1].toBlock>>

----------------------------------------------------------------------------
\* The order of the reconciled list.

\* the place of the first log of transaction txHash in list ls
FirstIndex(ls, txHash) ==
  CHOOSE i \in DOMAIN ls :
    /\ ls[i].transactionHash = txHash
    /\ \A k \in 1..(i - 1) : ls[k].transactionHash # txHash

\* burn a comes before burn b in the merge: firepit logs in the order fetched,
\* then dead logs in the order fetched
MergedBefore(a, b) ==
  \/ a.destination = "firepit" /\ b.destination = "dead"
  \/ /\ a.destination = "firepit" /\ b.destination = "firepit"
     /\ FirstIndex(lists.firepitLogs, a.txHash) < FirstIndex(lists.firepitLogs, b.txHash)
  \/ /\ a.destination = "dead" /\ b.destination = "dead"
     /\ FirstIndex(lists.deadLogs, a.txHash) < FirstIndex(lists.deadLogs, b.txHash)

\* C26: the list returned is in ascending block order, and burns of one block
\* stand in the order of the merge.
C26_ReconcilerOrdering ==
  reconciled # <<>> =>
    LET out == reconciled[1]
    IN  \A i, j \in DOMAIN out :
          i < j => /\ out[i].blockNumber <= out[j].blockNumber
                   /\ out[i].blockNumber = out[j].blockNumber
                        => MergedBefore(out[i], out[j])

\* a dead log of a lower block is moved before two burns of one block, one of
\* each sink, which keep their order
C26_Witness ==
  /\ reconciled # <<>>
  /\ Len(reconciled[1]) = 3
  /\ reconciled[1][1].destination = "dead"
  /\ reconciled[1][2].destination = "firepit"
  /\ reconciled[1][3].destination = "dead"
  /\ reconciled[1][2].blockNumber = reconciled[1][3].blockNumber
  /\ lists.deadLogs[1].transactionHash = reconciled[1][1].txHash

----------------------------------------------------------------------------
\* The checkpoint set from outside between two cycles.

\* the values an operator sets last_processed_block to: below every block the
\* scanner has written, and one above the first head
ResetBlocks == {InitHead - 5, InitHead + 1}

\* UPDATE state SET value = R WHERE key = 'last_processed_block', issued by
\* hand while no cycle is running
AdminReset ==
  /\ phase = "interval"
  /\ \A s \in Slots : cycle[s].pc = "idle"
  /\ \E r \in ResetBlocks :
       /\ Checkpoint # <<r>>
       /\ stateTable' = SetLastProcessedBlock(stateTable, r)
  /\ UNCHANGED <<chain, head, burnsTable, cycle, phase>>
  /\ UNCHANGED <<fetchVars, reconcileVars, storeVars, backfillVars, channel, db, env>>

NextReset ==
  \/ StartPolling
  \/ TimerFire(1)
  \/ ColdStart(1)
  \/ Fetch(1)
  \/ EmptyAdvance(1)
  \/ SkipNotified(1)
  \/ SendAlert(1)
  \/ Persist(1)
  \/ FinalAdvance(1)
  \/ Return(1)
  \/ HeadAdvance
  \/ AdminReset

SpecReset == Init /\ [][NextReset]_vars

\* C27: a cycle that found a checkpoint stored starts one block above the
\* value stored when it began, whoever wrote it, and the burns it works on
\* are those fetched from that block on.
C27_CheckpointReread ==
  Resumed(1) =>
    LET stored == GetLastProcessedBlock(cycle[1].atStart[1].state)[1]
    IN  /\ cycle[1].fromBlock = stored + 1
        /\ cycle[1].pc \in {"empty", "loop", "save", "done"}
             => cycle[1].burns =
                  FetchBurnsSinceBlock(chain, stored + 1, cycle[1].toBlock)

\* a cycle after a reset below the first head: it fetched again a burn that
\* is already recorded
C27_Witness ==
  /\ cycle[1].pc = "done"
  /\ cycle[1].fromBlock = InitHead - 5 + 1
  /\ \E i \in DOMAIN cycle[1].burns :
       cycle[1].atStart[1].burns # <<>>
       /\ cycle[1].burns[i].txHash = cycle[1].atStart[1].burns[1].txHash

----------------------------------------------------------------------------
\* The order of delivery and record within a cycle.

\* C28: every recorded burn has had its alert delivered; a burn whose alert
\* was rejected in the running cycle has no record; and a cycle that ended
\* without a thrown error has dealt with every burn it fetched, those after a
\* rejected alert included.
C28_DeliverThenPersist ==
  /\ \A i \in DOMAIN burnsTable : burnsTable[i].txHash \in channel
  /\ \A i \in DOMAIN cycle[1].outcome :
       cycle[1].outcome[i] = "fail" => ~Recorded(cycle[1].burns[i].txHash)
  /\ (cycle[1].pc = "done" /\ cycle[1].error = "none")
       => Len(cycle[1].outcome) = Len(cycle[1].burns)

\* a cycle over two burns: the first alert was rejected, the second burn was
\* delivered and recorded
C28_Witness ==
  /\ cycle[1].pc = "done"
  /\ cycle[1].error = "none"
  /\ cycle[1].outcome = <<"fail", "ok">>
  /\ Recorded(cycle[1].burns[2].txHash)
  /\ cycle[1].burns[1].txHash \notin channel

----------------------------------------------------------------------------
\* The checkpoint against the range the queries covered.

\* the stored checkpoint has reached block b
AtLeastCheckpoint(b) == Checkpoint # <<>> /\ Checkpoint[1] >= b

\* C29 (as claimed): the checkpoint a cycle leaves is at most the toBlock of
\* its queries, also when the head moves between the scan and the write.
C29_CheckpointWithinScan ==
  (cycle[1].pc = "done" /\ cycle[1].error = "none") =>
    Checkpoint[1] <= cycle[1].toBlock

\* C30 (as claimed): a resumed cycle whose fromBlock equals the head queries
\* that block before the checkpoint reaches it: when the cycle has ended, every
\* burn of the block is among the burns it fetched.
C30_SingleBlockScanned ==
  (cycle[1].pc = "done" /\ Resumed(1) /\ cycle[1].fromBlock = cycle[1].toBlock
     /\ AtLeastCheckpoint(cycle[1].fromBlock)) =>
    \A i \in DOMAIN chain :
      (chain[i].blockNumber = cycle[1].fromBlock
         /\ TruthyValue(chain[i].value) /\ TruthyAddress(chain[i].from))
      => \E k \in DOMAIN cycle[1].burns :
           cycle[1].burns[k].txHash = chain[i].transactionHash

----------------------------------------------------------------------------
\* The checkpoint against the records while a cycle is running.

\* C31 (as claimed): wherever a cycle in which nothing fails could stop, every
\* burn it fetched from a block at or below the stored checkpoint has its
\* record; the checkpoint does not reach a block before all burns of that
\* block are recorded.
C31_CrashSafeCheckpoint ==
  \A i \in DOMAIN cycle[1].burns :
    AtLeastCheckpoint(cycle[1].burns[i].blockNumber)
      => Recorded(cycle[1].burns[i].txHash)

----------------------------------------------------------------------------
\* The lookups of a fetch completing in any order.

\* the orders in which n lookups started together can complete
CompletionOrders(n) ==
  {o \in [1..n -> 1..n] : \A i, j \in 1..n : o[i] = o[j] => i = j}

\* a buggy collection: each lookup pushes its BurnEvent when it completes
PromiseAllAsCompleted(entries, order) ==
  [k \in DOMAIN order |-> BurnEventOf(entries[order[k]])]

\* each lookup's result goes to the place of its promise in the array
RECURSIVE Settle(_, _, _)
Settle(results, entries, order) ==
  IF order = <<>> THEN results
  ELSE Settle([results EXCEPT ![Head(order)] = BurnEventOf(entries[Head(order)])],
              entries, Tail(order))

\* await Promise.all(burnDataPromises), the lookups completing in order
PromiseAllInOrder(entries, order) ==
  Settle([i \in DOMAIN entries |-> <<>>], entries, order)

\* fetchBurnsSinceBlock from the merge on, the lookups completing in some
\* order; the order is kept beside the list returned
ReconcileConcurrent ==
  /\ reconciled = <<>>
  /\ LET kept == BurnEntries(BurnsByTx(lists.firepitLogs, lists.deadLogs))
     IN  \E order \in CompletionOrders(Len(kept)) :
           reconciled' = <<SortByBlock(PromiseAllInOrder(kept, order)), order>>
  /\ UNCHANGED <<lists, scannerVars, fetchVars, storeVars, backfillVars, channel, db, env>>

NextEnrich == ReconcileConcurrent

SpecEnrich == InitReconcile /\ [][NextEnrich]_vars

\* C32: in whatever order the lookups complete, the list returned is the one
\* the fetched logs determine, in ascending block order.
C32_EnrichmentOrderFree ==
  reconciled # <<>> =>
    LET out == reconciled[1]
    IN  /\ out = Reconcile(lists.firepitLogs, lists.deadLogs)
        /\ \A i, j \in DOMAIN out : i < j => out[i].blockNumber <= out[j].blockNumber
        /\ \A i, j \in DOMAIN out :
             (i < j /\ out[i].blockNumber = out[j].blockNumber)
               => MergedBefore(out[i], out[j])

\* three burns, two of them in one block, whose lookups completed in the
\* reverse of the order they were started in
C32_Witness ==
  /\ reconciled # <<>>
  /\ Len(reconciled[1]) = 3
  /\ reconciled[2] = <<3, 2, 1>>
  /\ reconciled[1][2].blockNumber = reconciled[1][3].blockNumber

----------------------------------------------------------------------------
\* The filter of the reconciler.

\* the log the merge keeps for transaction txHash: its first firepit log, or
\* else its first dead log
MergedLog(txHash) ==
  IF txHash \in TxsOf(lists.firepitLogs)
  THEN lists.firepitLogs[FirstIndex(lists.firepitLogs, txHash)]
  ELSE lists.deadLogs[FirstIndex(lists.deadLogs, txHash)]

\* the log carries a value field and a source-address field
HasFields(log) == log.value # Undefined /\ log.from # NoAddress

\* C33 (as claimed): a merged entry yields exactly one BurnEvent when its log
\* carries a value and a source address, whatever the value, and none
\* otherwise.
C33_FilterExact ==
  reconciled # <<>> =>
    LET out == reconciled[1]
    IN  \A tx \in TxsOf(lists.firepitLogs) \cup TxsOf(lists.deadLogs) :
          Cardinality({i \in DOMAIN out : out[i].txHash = tx})
            = IF HasFields(MergedLog(tx)) THEN 1 ELSE 0

----------------------------------------------------------------------------
\* The chunks of a backfill run.

\* C34: the chunks a run has fetched start at the deployment block, follow
\* one another without gap or overlap, hold at most MAX_BLOCKS_PER_QUERY
\* blocks each and end at the head when the run has ended; the attempt after
\* a failed one has the bounds of the failed one; once the chunk ending at the
\* head is done the loop can only end.
C34_BackfillCoverage ==
  LET cs == backfill.chunks
  IN  /\ cs # <<>> => cs[1].fromBlock = FIREPIT_DEPLOYMENT_BLOCK
      /\ \A i \in DOMAIN cs :
           /\ cs[i].fromBlock <= cs[i].toBlock
           /\ cs[i].toBlock <= backfill.currentBlock
           /\ cs[i].toBlock - cs[i].fromBlock + 1 <= BACKFILL_MAX_BLOCKS_PER_QUERY
           /\ i < Len(cs) => cs[i + 1].fromBlock = cs[i].toBlock + 1
      /\ backfill.pc = "done"
           => cs # <<>> /\ cs[Len(cs)].toBlock = backfill.currentBlock
      /\ (backfill.pc \in {"firepit", "dead"} /\ backfill.failed # <<>>)
           => cs[Len(cs)] = backfill.failed[1]
      /\ (backfill.pc = "loop" /\ cs # <<>>
            /\ cs[Len(cs)].toBlock = backfill.currentBlock)
           => ENABLED BackfillSummary /\ ~ENABLED BackfillGetLogs

\* a run that ended after two chunks, the second of which failed once and was
\* fetched at the second attempt
C34_Witness ==
  /\ backfill.pc = "done"
  /\ Len(backfill.chunks) = 2
  /\ backfill.failures = 1
  /\ backfill.chunks[2].toBlock = BackfillHead
  /\ backfill.chunks[2].fromBlock > FIREPIT_DEPLOYMENT_BLOCK

----------------------------------------------------------------------------
\* The same logs stored by the backfill script and by the scanner.

\* for (const log of logs) processAndSaveBurn(client, log, destination, config)
\* with every lookup answered
RECURSIVE BackfillSaveAll(_, _, _)
BackfillSaveAll(burns, ls, destination) ==
  IF ls = <<>> THEN burns
  ELSE BackfillSaveAll(ProcessAndSaveBurn(burns, {}, Head(ls), destination, TRUE).burns,
                       Tail(ls), destination)

\* the two loops of one turn of backfillBurns: firepit logs, then dead logs
BackfillChunk(firepitLogs, deadLogs) ==
  BackfillSaveAll(BackfillSaveAll(<<>>, firepitLogs, "firepit"), deadLogs, "dead")

\* the rows the scanner's loop saves for the burns of one fetch
RECURSIVE ScannerSaveAll(_, _)
ScannerSaveAll(burns, events) ==
  IF events = <<>> THEN burns
  ELSE ScannerSaveAll(SaveBurn(burns, StoredBurn(Head(events))).table, Tail(events))

\* the logs of one range are stored by the backfill script (burnsTable) and,
\* into a store of its own, by the scanner (inserted)
StoreBothWays ==
  /\ reconciled = <<>>
  /\ reconciled' = <<Reconcile(lists.firepitLogs, lists.deadLogs)>>
  /\ inserted' = ScannerSaveAll(<<>>, Reconcile(lists.firepitLogs, lists.deadLogs))
  /\ burnsTable' = BackfillChunk(lists.firepitLogs, lists.deadLogs)
  /\ UNCHANGED <<chain, head, stateTable, cycle, phase, lists, raised>>
  /\ UNCHANGED <<fetchVars, backfillVars, channel, db, env>>

NextAgree == StoreBothWays

SpecAgree == InitReconcile /\ [][NextAgree]_vars

\* C35 (as claimed, for logs that all carry a value and a source address): a
\* transaction is stored by the backfill script with the
\* txHash, blockNumber, raw amount and destination the scanner stores it
\* with, and a transaction with logs for both sinks is stored by either path
\* with destination firepit.
C35_PathsAgree ==
  (reconciled # <<>> /\ Decoded(lists.firepitLogs) /\ Decoded(lists.deadLogs)) =>
    /\ \A i \in DOMAIN burnsTable : \A j \in DOMAIN inserted :
         burnsTable[i].txHash = inserted[j].txHash
           => /\ burnsTable[i].blockNumber = inserted[j].blockNumber
              /\ burnsTable[i].uniAmountRaw = inserted[j].uniAmountRaw
              /\ burnsTable[i].destination = inserted[j].destination
    /\ \A tx \in TxsOf(lists.firepitLogs) \cap TxsOf(lists.deadLogs) :
         /\ \A i \in DOMAIN burnsTable :
              burnsTable[i].txHash = tx => burnsTable[i].destination = "firepit"
         /\ \A j \in DOMAIN inserted :
              inserted[j].txHash = tx => inserted[j].destination = "firepit"

----------------------------------------------------------------------------
\* The scanner on a provider whose head is low.

\* heads a provider can report: 0 (a node that is still syncing), a head
\* inside the lookback window, a head just beyond it
LowHeads == {0, INITIAL_LOOKBACK_BLOCKS - 200, INITIAL_LOOKBACK_BLOCKS + 100}

\* state table of a process that starts: empty, or a checkpoint at or below
\* the head
LowStates(h) ==
  {{}} \cup {SetLastProcessedBlock({}, h - k) : k \in {j \in 0..MaxRangeBlock : j <= h}}

InitLowHead ==
  /\ chain = <<>>
  /\ head \in LowHeads
  /\ burnsTable = <<>>
  /\ stateTable \in LowStates(head)
  /\ cycle = [s \in Slots |-> IdleCycle]
  /\ phase = "starting"
  /\ UnitIdle

SpecLowHead == InitLowHead /\ [][NextRange]_vars

\* the getLogs requests of the fetch of slot s, for either sink
FetchRequests(s) ==
  IF cycle[s].fromBlock >= cycle[s].toBlock THEN {}
  ELSE {[fromBlock |-> st, toBlock |-> ChunkEnd(st, cycle[s].toBlock)] :
          st \in ChunkStarts(cycle[s].fromBlock, cycle[s].toBlock)}

\* C36 (as claimed): the fromBlock a cycle derives is not negative, and every
\* getLogs request of its fetch has 0 <= fromBlock <= toBlock, also on a cold
\* start with a head below the lookback window.
C36_ValidQueryBounds ==
  /\ cycle[1].pc = "fetch" => cycle[1].fromBlock >= 0
  /\ cycle[1].pc \in {"empty", "loop", "save", "done"} =>
       \A r \in FetchRequests(1) : 0 <= r.fromBlock /\ r.fromBlock <= r.toBlock

----------------------------------------------------------------------------
\* The checkpoint store on its own.

\* block heights written: one digit, several digits, trailing zeros, the
\* deployment block
CheckpointBlocks == {0, 9, 10, InitHead, FIREPIT_DEPLOYMENT_BLOCK}

\* await setLastProcessedBlock(b); inserted keeps the arguments of the calls
CallSetLastProcessedBlock ==
  /\ Len(inserted) < MaxInserts
  /\ \E b \in CheckpointBlocks :
       /\ stateTable' = SetLastProcessedBlock(stateTable, b)
       /\ inserted' = Append(inserted, b)
  /\ UNCHANGED <<chain, head, burnsTable, cycle, phase, raised, fetchVars,
                 reconcileVars, backfillVars, channel, db, env>>

NextCheckpoint == CallSetLastProcessedBlock

SpecCheckpoint == InitStore /\ [][NextCheckpoint]_vars

\* C37: getLastProcessedBlock returns null before the first write and the
\* block written last after it, and the state table never holds more than
\* one row for the key.
C37_CheckpointRoundTrip ==
  /\ GetLastProcessedBlock(stateTable)
       = IF inserted = <<>> THEN <<>> ELSE <<inserted[Len(inserted)]>>
  /\ Cardinality({r \in stateTable : r.key = CheckpointKey}) <= 1

\* the deployment block written, then a lower block written over it
C37_Witness ==
  /\ Len(inserted) = 2
  /\ inserted[1] = FIREPIT_DEPLOYMENT_BLOCK
  /\ inserted[2] = 10
  /\ Checkpoint = <<10>>

====
